---------------------------- MODULE Spec2Model ----------------------------
(***************************************************************************)
(* Fleet driver scoring API (src/server.js): the in-memory score ledger.   *)
(*                                                                         *)
(* The state is the two module-level objects the handlers mutate,          *)
(* scoringConfig and driverScores.  Every route handler is a synchronous   *)
(* function (no await, no callback), so Node's event loop runs it to       *)
(* completion: one handler is one atomic action.                           *)
(*                                                                         *)
(* JavaScript values are modelled by what the code does with them:         *)
(*   - a number, NaN and undefined are tagged records (Num, NaN,           *)
(*     Undefined); "+" follows JS (a non-number operand gives NaN);         *)
(*   - an object is a function from its keys (a TLA+ record); a missing    *)
(*     key reads as Undefined;                                             *)
(*   - driverScores is the sequence of its values in property order        *)
(*     (insertion order for the non-numeric keys used here), which is      *)
(*     what Object.values returns;                                         *)
(*   - new Date() reads the logical clock now, which advances whenever a   *)
(*     handler has taken a timestamp.                                      *)
(***************************************************************************)
EXTENDS Integers, Sequences, FiniteSets, TLC

VARIABLES
    scoringConfig,  \* src/server.js:11   let scoringConfig = {...}
    driverScores,   \* src/server.js:213  let driverScores = {}
    now,            \* the value new Date() returns next
    status,         \* HTTP status of the last response (0: none yet)
    appended,       \* history: per driver, events appended since its last reset
    inflight,       \* requests accepted by the transport, not yet dispatched
    served          \* history: the requests dispatched so far, in dispatch order

vars == <<scoringConfig, driverScores, now, status, appended, inflight, served>>

(***************************************************************************)
(* Bounds of the model.                                                    *)
(***************************************************************************)
MaxTime == 3

MaxRequests == 3

DriverIds == {"d1", "d2"}

(***************************************************************************)
(* JavaScript numbers.                                                     *)
(***************************************************************************)
Num(k) == [t |-> "num", n |-> k]

NaN == [t |-> "nan", n |-> 0]

Undefined == [t |-> "undef", n |-> 0]

\* a + b on (possibly non-numeric) operands: undefined converts to NaN
Add(a, b) == IF a.t = "num" /\ b.t = "num" THEN Num(a.n + b.n) ELSE NaN

\* obj[key]
Lookup(obj, key) == IF key \in DOMAIN obj THEN Num(obj[key]) ELSE Undefined

\* truthiness of a string field of a request body ("" and undefined are falsy)
NoString == "<undefined>"

Truthy(s) == s # NoString /\ s # ""

(***************************************************************************)
(* scoringConfig as seeded at start-up.                                    *)
(***************************************************************************)
DefaultConfig ==
    [ gpsMonitoring    |-> [ speedWithinLimit   |-> 2,
                             speedExceedingBy30 |-> -10,
                             smoothAcceleration |-> 1,
                             severeAcceleration |-> -4 ],
      driverMonitoring |-> [ fallingAsleep      |-> -10,
                             mobilePhoneUse     |-> -3,
                             maintainingFocus   |-> 2,
                             unauthorizedDriver |-> -15 ],
      safetyEmergency  |-> [ properEmergencyResponse |-> 5,
                             atFaultAccident         |-> -15,
                             collisionAvoidance      |-> 8,
                             ignoringFatigueAlerts   |-> -8 ],
      compliance       |-> [ preTrip        |-> 3,
                             expiredLicense |-> -15,
                             cleanRecord    |-> 5,
                             duiDwi         |-> -30 ],
      achievements     |-> [ oneYearAccidentFree |-> 30,
                             bestFuelEconomy     |-> 15,
                             safetyChampion      |-> 10 ],
      customRules      |-> [x \in {} |-> 0],
      basePoints       |-> 0 ]

Categories ==
    {"gpsMonitoring", "driverMonitoring", "safetyEmergency", "compliance", "achievements"}

\* The built-in scoring endpoints: the rule each reads and the labels it logs.
Endpoint(cat, key, category, event) ==
    [cat |-> cat, key |-> key, category |-> category, event |-> event]

Endpoints ==
    { Endpoint("gpsMonitoring", "speedWithinLimit", "GPS Monitoring", "Speed within 5% of limit"),
      Endpoint("gpsMonitoring", "speedExceedingBy30", "GPS Monitoring", "Exceeding limit by 30+ mph"),
      Endpoint("gpsMonitoring", "smoothAcceleration", "GPS Monitoring", "Smooth acceleration/braking"),
      Endpoint("gpsMonitoring", "severeAcceleration", "GPS Monitoring", "Severe braking/acceleration"),
      Endpoint("driverMonitoring", "fallingAsleep", "Driver Monitoring", "Falling asleep while driving"),
      Endpoint("driverMonitoring", "mobilePhoneUse", "Driver Monitoring", "Mobile phone use"),
      Endpoint("driverMonitoring", "maintainingFocus", "Driver Monitoring", "Maintaining focus entire trip"),
      Endpoint("driverMonitoring", "unauthorizedDriver", "Driver Monitoring", "Unauthorized driver"),
      Endpoint("safetyEmergency", "properEmergencyResponse", "Safety & Emergency", "Proper emergency response"),
      Endpoint("safetyEmergency", "atFaultAccident", "Safety & Emergency", "At-fault accident"),
      Endpoint("safetyEmergency", "collisionAvoidance", "Safety & Emergency", "Collision avoidance"),
      Endpoint("safetyEmergency", "ignoringFatigueAlerts", "Safety & Emergency", "Ignoring fatigue alerts"),
      Endpoint("compliance", "preTrip", "Compliance", "Pre-trip vehicle inspection"),
      Endpoint("compliance", "expiredLicense", "Compliance", "Expired license operation"),
      Endpoint("compliance", "cleanRecord", "Compliance", "Clean record for 6 months"),
      Endpoint("compliance", "duiDwi", "Compliance", "DUI/DWI offense"),
      Endpoint("achievements", "oneYearAccidentFree", "Achievement", "1 year accident-free"),
      Endpoint("achievements", "bestFuelEconomy", "Achievement", "Best fuel economy (month)"),
      Endpoint("achievements", "safetyChampion", "Achievement", "Safety Champion (30 days)") }

\* Keep only last 100 events per driver
EventCap == 100

(***************************************************************************)
(* driverScores: lookup and update by driverId.                            *)
(***************************************************************************)
Has(ds, id) == \E i \in 1..Len(ds) : ds[i].driverId = id

IndexOf(ds, id) == CHOOSE i \in 1..Len(ds) : ds[i].driverId = id

Get(ds, id) == ds[IndexOf(ds, id)]

Put(ds, id, driver) == [ds EXCEPT ![IndexOf(ds, id)] = driver]

Ids(ds) == {ds[i].driverId : i \in 1..Len(ds)}

\* arr.slice(-n) off by one: the last n - 1 elements
SliceLastOffByOne(arr, n) ==
    IF Len(arr) > n THEN SubSeq(arr, Len(arr) - n + 2, Len(arr)) ELSE arr

\* arr.slice(-n)
SliceLast(arr, n) ==
    IF Len(arr) > n THEN SubSeq(arr, Len(arr) - n + 1, Len(arr)) ELSE arr

(***************************************************************************)
(* function initializeDriver(driverId)                                     *)
(***************************************************************************)
\* initializeDriver replacing the whole driverScores object by the new entry
initializeDriverFresh(ds, cfg, t, driverId) ==
    IF Has(ds, driverId)
    THEN ds
    ELSE <<[ driverId     |-> driverId,
             currentScore |-> Num(cfg.basePoints),
             lastReset    |-> t,
             scoreHistory |-> <<>>,
             events       |-> <<>> ]>>

\* if (!driverScores[driverId]) driverScores[driverId] = { ... }
initializeDriver(ds, cfg, t, driverId) ==
    IF Has(ds, driverId)
    THEN ds
    ELSE Append(ds, [ driverId     |-> driverId,
                      currentScore |-> Num(cfg.basePoints),
                      lastReset    |-> t,
                      scoreHistory |-> <<>>,
                      events       |-> <<>> ])

(***************************************************************************)
(* function logScoringEvent(driverId, category, event, points, details)    *)
(* The result is the new driverScores; the returned eventLog is the        *)
(* driver's last event.                                                    *)
(***************************************************************************)
\* logScoringEvent adding the delta to a stale score (the one the driver
\* started from), which loses the updates made since
logScoringEventLostUpdate(ds, cfg, t, driverId, category, event, points, details) ==
    LET ds1      == initializeDriver(ds, cfg, t, driverId)
        driver   == Get(ds1, driverId)
        eventLog == [ timestamp  |-> t,
                      category   |-> category,
                      event      |-> event,
                      points     |-> points,
                      details    |-> details,
                      scoreAfter |-> Add(Num(cfg.basePoints), points) ]
        pushed   == Append(driver.events, eventLog)
    IN  Put(ds1, driverId,
            [driver EXCEPT !.events = IF Len(pushed) > EventCap
                                      THEN SliceLast(pushed, EventCap)
                                      ELSE pushed,
                           !.currentScore = Add(Num(cfg.basePoints), points)])

\* logScoringEvent taking the snapshot before the delta is applied
logScoringEventStaleSnapshot(ds, cfg, t, driverId, category, event, points, details) ==
    LET ds1      == initializeDriver(ds, cfg, t, driverId)
        driver   == Get(ds1, driverId)
        eventLog == [ timestamp  |-> t,
                      category   |-> category,
                      event      |-> event,
                      points     |-> points,
                      details    |-> details,
                      scoreAfter |-> driver.currentScore ]
        pushed   == Append(driver.events, eventLog)
    IN  Put(ds1, driverId,
            [driver EXCEPT !.events = IF Len(pushed) > EventCap
                                      THEN SliceLast(pushed, EventCap)
                                      ELSE pushed,
                           !.currentScore = Add(driver.currentScore, points)])

\* the function as written: snapshot currentScore + points, push, add the
\* points, keep the last EventCap events
logScoringEvent(ds, cfg, t, driverId, category, event, points, details) ==
    LET ds1      == initializeDriver(ds, cfg, t, driverId)
        driver   == Get(ds1, driverId)
        eventLog == [ timestamp  |-> t,
                      category   |-> category,
                      event      |-> event,
                      points     |-> points,
                      details    |-> details,
                      scoreAfter |-> Add(driver.currentScore, points) ]
        pushed   == Append(driver.events, eventLog)
    IN  Put(ds1, driverId,
            [driver EXCEPT !.events = IF Len(pushed) > EventCap
                                      THEN SliceLast(pushed, EventCap)
                                      ELSE pushed,
                           !.currentScore = Add(driver.currentScore, points)])

\* `${getFullYear()}-${getMonth() + 1}`: a label shared by neighbouring dates
PeriodOf(t) == t \div 3

(***************************************************************************)
(* The body of POST /api/driver/:driverId/reset.                           *)
(***************************************************************************)
\* resetDriver with the archive written after the score is cleared
resetDriverClearFirst(ds, cfg, t, driverId) ==
    LET ds1    == initializeDriver(ds, cfg, t, driverId)
        driver == Get(ds1, driverId)
        entry  == [ period      |-> PeriodOf(t),
                    finalScore  |-> Num(cfg.basePoints),
                    endDate     |-> t,
                    eventsCount |-> 0 ]
    IN  Put(ds1, driverId,
            [driver EXCEPT !.scoreHistory = Append(driver.scoreHistory, entry),
                           !.currentScore = Num(cfg.basePoints),
                           !.lastReset    = t,
                           !.events       = <<>>])

\* resetDriver counting the events after the log is emptied
resetDriverCountAfterClear(ds, cfg, t, driverId) ==
    LET ds1    == initializeDriver(ds, cfg, t, driverId)
        driver == Get(ds1, driverId)
        entry  == [ period      |-> PeriodOf(t),
                    finalScore  |-> driver.currentScore,
                    endDate     |-> t,
                    eventsCount |-> 0 ]
    IN  Put(ds1, driverId,
            [driver EXCEPT !.scoreHistory = Append(driver.scoreHistory, entry),
                           !.currentScore = Num(cfg.basePoints),
                           !.lastReset    = t,
                           !.events       = <<>>])

\* the handler as written: archive the period, then clear the aggregate
resetDriver(ds, cfg, t, driverId) ==
    LET ds1    == initializeDriver(ds, cfg, t, driverId)
        driver == Get(ds1, driverId)
        entry  == [ period      |-> PeriodOf(t),
                    finalScore  |-> driver.currentScore,
                    endDate     |-> t,
                    eventsCount |-> Len(driver.events) ]
    IN  Put(ds1, driverId,
            [driver EXCEPT !.scoreHistory = Append(driver.scoreHistory, entry),
                           !.currentScore = Num(cfg.basePoints),
                           !.lastReset    = t,
                           !.events       = <<>>])

(***************************************************************************)
(* app.get('/api/leaderboard')                                             *)
(***************************************************************************)
\* (a, b) => b.currentScore - a.currentScore; sort reads a NaN result as +0
Compare(a, b) ==
    IF a.currentScore.t = "num" /\ b.currentScore.t = "num"
    THEN b.currentScore.n - a.currentScore.n
    ELSE 0

\* Array.prototype.sort with a consistent comparator: a stable sort
RECURSIVE StableSort(_)
StableSort(arr) ==
    IF Len(arr) <= 1
    THEN arr
    ELSE LET front == StableSort(SubSeq(arr, 1, Len(arr) - 1))
             x     == arr[Len(arr)]
             k     == Cardinality({i \in 1..Len(front) : Compare(front[i], x) <= 0})
         IN  SubSeq(front, 1, k) \o <<x>> \o SubSeq(front, k + 1, Len(front))

Orderings(arr) ==
    {[i \in 1..Len(arr) |-> arr[p[i]]] :
        p \in {q \in [1..Len(arr) -> 1..Len(arr)] :
                 \A i, j \in 1..Len(arr) : q[i] = q[j] => i = j}}

\* The orders sort may leave the array in.  With a NaN score the comparator
\* is not a consistent one and the order is implementation-defined.
SortOutcomes(arr) ==
    IF \A i \in 1..Len(arr) : arr[i].currentScore.t = "num"
    THEN {StableSort(arr)}
    ELSE Orderings(arr)

\* the response bodies GET /api/leaderboard may send in this state
Leaderboards(ds) ==
    {[index \in 1..Len(sorted) |->
        [ rank         |-> index,
          driverId     |-> sorted[index].driverId,
          currentScore |-> sorted[index].currentScore,
          lastReset    |-> sorted[index].lastReset,
          eventsCount  |-> Len(sorted[index].events) ]] : sorted \in SortOutcomes(ds)}

(***************************************************************************)
(* Initial state: the module has just been loaded.                         *)
(***************************************************************************)
Init ==
    /\ scoringConfig = DefaultConfig
    /\ driverScores = <<>>
    /\ now = 0
    /\ status = 0
    /\ appended = [d \in DriverIds |-> 0]
    /\ inflight = {}
    /\ served = <<>>

(***************************************************************************)
(* Inputs the model draws requests from.                                   *)
(***************************************************************************)
\* the built-in endpoints exercised: one of a category a configuration
\* update below replaces, one of a category it leaves alone
ExercisedEndpoints ==
    {e \in Endpoints : e.key \in {"speedExceedingBy30", "preTrip"}}

\* req.body.details (opaque to the ledger)
Details == "{}"

\* bodies of POST /api/scoring/custom: all four fields given, with the one
\* value of points that is falsy yet a number ...
ValidCustomBodies ==
    [ driverId : DriverIds,
      category : {"Custom"},
      event    : {"Manual adjustment"},
      points   : {Num(0)} ]

\* ... or one of them absent or empty
InvalidCustomBodies ==
    UNION { { [body EXCEPT !.driverId = NoString],
              [body EXCEPT !.driverId = ""],
              [body EXCEPT !.category = NoString],
              [body EXCEPT !.event = ""],
              [body EXCEPT !.points = Undefined] } : body \in ValidCustomBodies }

CustomBodies == ValidCustomBodies \cup InvalidCustomBodies

Restrict(f, S) == [k \in S |-> f[k]]

\* bodies of PUT /api/scoring-config
RebaseBody == [k \in Categories \cup {"basePoints"} |->
                 IF k = "basePoints" THEN 5 ELSE DefaultConfig[k]]

PartialCategoryBody == [RebaseBody EXCEPT !.gpsMonitoring = [speedWithinLimit |-> 3]]

MissingCategoryBody == Restrict(RebaseBody, DOMAIN RebaseBody \ {"achievements"})

ZeroBaseBody == [RebaseBody EXCEPT !.basePoints = 0]

ConfigBodies == {RebaseBody, PartialCategoryBody, MissingCategoryBody, ZeroBaseBody}

(***************************************************************************)
(* The model stops taking timestamps after MaxTime of them (counted from   *)
(* the initial state, which for SpecLong is LongStart).                    *)
(***************************************************************************)
LongStart == EventCap - 1

Within ==
    \/ now < MaxTime
    \/ now >= LongStart /\ now < LongStart + MaxTime

(***************************************************************************)
(* Handlers.  Each Do... is a route handler's effect on the ledger and the *)
(* response; the action of the same route adds the frame.                  *)
(***************************************************************************)
\* app.post('/api/scoring/<group>/<rule>'): the nineteen built-in endpoints
DoScoring(e, driverId) ==
    LET points == Lookup(scoringConfig[e.cat], e.key)
    IN  /\ now' = now + 1
        /\ status' = 200
        /\ appended' = [appended EXCEPT ![driverId] = @ + 1]
        /\ UNCHANGED scoringConfig
        /\ driverScores' = logScoringEvent(driverScores, scoringConfig, now, driverId,
                                           e.category, e.event, points, Details)

ScoringEndpoint(e, driverId) ==
    /\ Within
    /\ DoScoring(e, driverId)
    /\ UNCHANGED <<inflight, served>>

\* the check written with !points, which also refuses a point delta of 0
CustomRejectedZeroPoints(body) ==
    \/ ~Truthy(body.driverId)
    \/ ~Truthy(body.category)
    \/ ~Truthy(body.event)
    \/ body.points = Undefined
    \/ body.points = Num(0)

\* if (!driverId || !category || !event || points === undefined)
CustomRejected(body) ==
    \/ ~Truthy(body.driverId)
    \/ ~Truthy(body.category)
    \/ ~Truthy(body.event)
    \/ body.points = Undefined

\* app.post('/api/scoring/custom')
CustomEndpoint(body) ==
    /\ Within
    /\ \/ /\ CustomRejected(body)
          /\ status' = 400
          /\ UNCHANGED <<scoringConfig, driverScores, now, appended>>
       \/ /\ ~CustomRejected(body)
          /\ now' = now + 1
          /\ status' = 200
          /\ appended' = [appended EXCEPT ![body.driverId] = @ + 1]
          /\ UNCHANGED scoringConfig
          /\ driverScores' = logScoringEvent(driverScores, scoringConfig, now, body.driverId,
                                             body.category, body.event, body.points, Details)
    /\ UNCHANGED <<inflight, served>>

\* app.post('/api/driver/:driverId/reset')
DoReset(driverId) ==
    /\ now' = now + 1
    /\ status' = 200
    /\ appended' = [appended EXCEPT ![driverId] = 0]
    /\ UNCHANGED scoringConfig
    /\ driverScores' = resetDriver(driverScores, scoringConfig, now, driverId)

ResetEndpoint(driverId) ==
    /\ Within
    /\ DoReset(driverId)
    /\ UNCHANGED <<inflight, served>>

\* app.get('/api/driver/:driverId/score')
GetScore(driverId) ==
    /\ Within
    /\ now' = IF Has(driverScores, driverId) THEN now ELSE now + 1
    /\ status' = 200
    /\ UNCHANGED <<scoringConfig, appended, inflight, served>>
    /\ driverScores' = initializeDriver(driverScores, scoringConfig, now, driverId)

\* newConfig.gpsMonitoring && ... && newConfig.basePoints
ConfigAccepted(newConfig) ==
    /\ \A c \in Categories : c \in DOMAIN newConfig
    /\ "basePoints" \in DOMAIN newConfig
    /\ newConfig.basePoints # 0

\* { ...scoringConfig, ...newConfig }
Spread(cfg, newConfig) ==
    [k \in DOMAIN cfg \cup DOMAIN newConfig |->
        IF k \in DOMAIN newConfig THEN newConfig[k] ELSE cfg[k]]

\* app.put('/api/scoring-config')
PutConfig(newConfig) ==
    /\ \/ /\ ConfigAccepted(newConfig)
          /\ scoringConfig' = Spread(scoringConfig, newConfig)
          /\ status' = 200
       \/ /\ ~ConfigAccepted(newConfig)
          /\ status' = 400
          /\ UNCHANGED scoringConfig
    /\ UNCHANGED <<driverScores, now, appended, inflight, served>>

\* app.get('/api/scoring-config'), app.get('/api/drivers/scores'),
\* app.get('/api/leaderboard'): they read the state and answer 200
ReadOnly ==
    /\ status' = 200
    /\ UNCHANGED <<scoringConfig, driverScores, now, appended, inflight, served>>

Next ==
    \/ \E e \in ExercisedEndpoints, d \in DriverIds : ScoringEndpoint(e, d)
    \/ \E body \in CustomBodies : CustomEndpoint(body)
    \/ \E d \in DriverIds : ResetEndpoint(d)
    \/ \E d \in DriverIds : GetScore(d)
    \/ \E newConfig \in ConfigBodies : PutConfig(newConfig)
    \/ ReadOnly

Spec == Init /\ [][Next]_vars

(***************************************************************************)
(* SpecLong: the same handlers, started from the state the program is in   *)
(* after LongStart pre-trip events for driver d1 (one short of the cap),   *)
(* so that the cap of logScoringEvent is reached.                          *)
(***************************************************************************)
PreTrip == CHOOSE e \in Endpoints : e.key = "preTrip"

\* ds after the pre-trip requests of the instants lo .. hi-1, in order (the
\* test on half only makes TLC compute the first half before the second)
RECURSIVE Replay(_, _, _)
Replay(ds, lo, hi) ==
    IF hi <= lo
    THEN ds
    ELSE IF hi = lo + 1
    THEN logScoringEvent(ds, DefaultConfig, lo, "d1", PreTrip.category, PreTrip.event,
                         Lookup(DefaultConfig[PreTrip.cat], PreTrip.key), Details)
    ELSE LET mid  == (lo + hi) \div 2
             half == Replay(ds, lo, mid)
         IN  IF Len(half) > 0 THEN Replay(half, mid, hi) ELSE ds

InitLong ==
    /\ scoringConfig = DefaultConfig
    /\ driverScores = Replay(<<>>, 0, LongStart)
    /\ now = LongStart
    /\ status = 200
    /\ appended = [d \in DriverIds |-> IF d = "d1" THEN LongStart ELSE 0]
    /\ inflight = {}
    /\ served = <<>>

SpecLong == InitLong /\ [][Next]_vars

(***************************************************************************)
(* SpecConc: requests issued concurrently.  The transport accepts a        *)
(* request (Issue) and the event loop later runs its handler to completion *)
(* (Dispatch), in any order; several requests may be pending at once.      *)
(***************************************************************************)
NoEndpoint == Endpoint("", "", "", "")

Issued == Len(served) + Cardinality(inflight)

Issue(kind, driverId, e) ==
    /\ Issued < MaxRequests
    /\ inflight' = inflight \cup
          {[id |-> Issued + 1, kind |-> kind, driverId |-> driverId, endpoint |-> e]}
    /\ UNCHANGED <<scoringConfig, driverScores, now, status, appended, served>>

Dispatch(r) ==
    /\ r \in inflight
    /\ \/ r.kind = "append" /\ DoScoring(r.endpoint, r.driverId)
       \/ r.kind = "reset" /\ DoReset(r.driverId)
    /\ inflight' = inflight \ {r}
    /\ served' = Append(served, r)

NextConc ==
    \/ \E d \in DriverIds, e \in ExercisedEndpoints : Issue("append", d, e)
    \/ \E d \in DriverIds : Issue("reset", d, NoEndpoint)
    \/ \E r \in inflight : Dispatch(r)

SpecConc == Init /\ [][NextConc]_vars

(***************************************************************************)
(* Properties.                                                             *)
(***************************************************************************)
\* the sum of the point deltas of a log, as JS adds them
RECURSIVE SumPoints(_)
SumPoints(events) ==
    IF events = <<>>
    THEN Num(0)
    ELSE Add(SumPoints(SubSeq(events, 1, Len(events) - 1)), events[Len(events)].points)

\* JS a >= b (false when either side is NaN)
Geq(a, b) == a.t = "num" /\ b.t = "num" /\ a.n >= b.n

\* what getScore(id) reports as the score in the current state
ScoreOf(ds, cfg, id) == IF Has(ds, id) THEN Get(ds, id).currentScore ELSE Num(cfg.basePoints)

EventsOf(ds, id) == IF Has(ds, id) THEN Get(ds, id).events ELSE <<>>

HistoryOf(ds, id) == IF Has(ds, id) THEN Get(ds, id).scoreHistory ELSE <<>>

\* the fields of a custom body that are missing: absent or empty
BadFields(body) ==
    {f \in {"driverId", "category", "event"} : body[f] \in {NoString, ""}}
        \cup (IF body.points = Undefined THEN {"points"} ELSE {})

\* new is old with one event appended at its end, the oldest event dropped
\* if old already held EventCap
OneAppended(old, new) ==
    /\ new # <<>>
    /\ Len(new) = IF Len(old) < EventCap THEN Len(old) + 1 ELSE EventCap
    /\ \A j \in 1..(Len(new) - 1) : new[j] = old[j + 1 + Len(old) - Len(new)]

\* C1 (score consistency): in every reachable state, for every driver,
\* currentScore equals basePoints plus the sum of the point deltas of the
\* events logged for the driver since its last reset.
ScoreConsistency ==
    \A i \in 1..Len(driverScores) :
        driverScores[i].currentScore =
            Add(Num(scoringConfig.basePoints), SumPoints(driverScores[i].events))

\* C9 (default rules are never removed): in every reachable state every
\* default rule seeded at start-up is still in scoringConfig with a defined
\* point value, so every built-in endpoint reads a defined point delta.
DefaultRulesPresent ==
    \A e \in Endpoints :
        /\ e.cat \in DOMAIN scoringConfig
        /\ Lookup(scoringConfig[e.cat], e.key) # Undefined

\* C4 (leaderboard determinism): in every reachable state the leaderboard
\* lists every driver exactly once, in non-increasing order of currentScore,
\* with rank i on its i-th entry, and the call has one possible answer, in
\* which drivers of equal score keep their driverScores order.
LeaderboardDeterministic ==
    /\ Cardinality(Leaderboards(driverScores)) = 1
    /\ \A lb \in Leaderboards(driverScores) :
        /\ Len(lb) = Len(driverScores)
        /\ \A id \in Ids(driverScores) :
              Cardinality({i \in 1..Len(lb) : lb[i].driverId = id}) = 1
        /\ \A i \in 1..Len(lb) : lb[i].rank = i
        /\ \A i \in 1..(Len(lb) - 1) : Geq(lb[i].currentScore, lb[i + 1].currentScore)
        /\ \A i, j \in 1..Len(lb) :
              (i < j /\ lb[i].currentScore = lb[j].currentScore)
                  => IndexOf(driverScores, lb[i].driverId) < IndexOf(driverScores, lb[j].driverId)

\* The same statement restricted to the states in which every score is a number.
AllScoresNumeric ==
    \A i \in 1..Len(driverScores) : driverScores[i].currentScore.t = "num"

LeaderboardDeterministicIfNumeric == AllScoresNumeric => LeaderboardDeterministic

\* C2 (reset archival round trip): a reset of driver d appends exactly one
\* history entry, whose finalScore is d's score just before the reset, and
\* leaves currentScore = basePoints and no events; and in every step a
\* driver's history grows if and only if its lastReset is renewed, its
\* score is back at basePoints and its log is empty (none without the other).
ResetArchivesAndClears ==
    [][ /\ \A d \in DriverIds :
              ResetEndpoint(d) =>
                  LET before == HistoryOf(driverScores, d)
                      after  == Get(driverScores', d)
                  IN  /\ Len(after.scoreHistory) = Len(before) + 1
                      /\ SubSeq(after.scoreHistory, 1, Len(before)) = before
                      /\ after.scoreHistory[Len(before) + 1].finalScore =
                             ScoreOf(driverScores, scoringConfig, d)
                      /\ after.currentScore = Num(scoringConfig.basePoints)
                      /\ Len(after.events) = 0
        /\ \A i \in 1..Len(driverScores) :
              LET old == driverScores[i]
                  new == Get(driverScores', old.driverId)
                  archived == new.scoreHistory # old.scoreHistory
                  cleared  == new.lastReset # old.lastReset
              IN  /\ archived <=> cleared
                  /\ archived => /\ new.currentScore = Num(scoringConfig.basePoints)
                                 /\ new.events = <<>>
                                 /\ Len(new.scoreHistory) = Len(old.scoreHistory) + 1
      ]_vars

\* A driver that scored points, then was reset: the entry holds the score
\* and the event count of the period, and the live aggregate is cleared.
ResetWitness ==
    \E i \in 1..Len(driverScores) :
        LET driver == driverScores[i]
        IN  /\ Len(driver.scoreHistory) = 1
            /\ driver.scoreHistory[1].finalScore = Num(-7)
            /\ driver.scoreHistory[1].eventsCount = 2
            /\ driver.events = <<>>
            /\ driver.currentScore = Num(scoringConfig.basePoints)

\* C5 (generic event validation): a POST /api/scoring/custom in which
\* driverId, category, event or points is missing (absent or empty) answers
\* 400 and changes nothing of the ledger: no aggregate is created, no event
\* appended, no score changed; one in which all four are present answers 200
\* and appends exactly one event, carrying the request's fields, to the
\* named driver's log.
GenericEventValidation ==
    [][ \A body \in CustomBodies :
          CustomEndpoint(body) =>
              IF BadFields(body) # {}
              THEN /\ status' = 400
                   /\ UNCHANGED <<driverScores, scoringConfig, appended>>
              ELSE LET old == EventsOf(driverScores, body.driverId)
                       new == Get(driverScores', body.driverId).events
                   IN  /\ status' = 200
                       /\ appended' = [appended EXCEPT ![body.driverId] = @ + 1]
                       /\ OneAppended(old, new)
                       /\ new[Len(new)].category = body.category
                       /\ new[Len(new)].event = body.event
                       /\ new[Len(new)].points = body.points
      ]_vars

\* A custom event with a point delta of 0 was accepted: it is the second
\* event of its driver's log and the last answer was 200.
GenericEventWitness ==
    /\ status = 200
    /\ \E i \in 1..Len(driverScores) :
          /\ Len(driverScores[i].events) = 2
          /\ driverScores[i].events[2].category = "Custom"
          /\ driverScores[i].events[2].points = Num(0)

\* C10 (per-driver isolation): a scoring request, a reset or a score read
\* that names driver d leaves the aggregate (currentScore, lastReset, events,
\* scoreHistory) of every other driver unchanged, and no step removes an
\* aggregate from driverScores.
PerDriverIsolation ==
    [][ /\ \A d \in DriverIds :
              ( \/ \E e \in ExercisedEndpoints : ScoringEndpoint(e, d)
                \/ \E body \in CustomBodies : body.driverId = d /\ CustomEndpoint(body)
                \/ ResetEndpoint(d)
                \/ GetScore(d) )
              => \A i \in 1..Len(driverScores) :
                    driverScores[i].driverId # d
                        => /\ Has(driverScores', driverScores[i].driverId)
                           /\ Get(driverScores', driverScores[i].driverId) = driverScores[i]
        /\ Ids(driverScores) \subseteq Ids(driverScores')
      ]_vars

\* Two aggregates exist, each with a log and a history of its own.
IsolationWitness ==
    /\ Len(driverScores) = 2
    /\ driverScores[1].events # <<>>
    /\ driverScores[1].scoreHistory = <<>>
    /\ driverScores[2].events = <<>>
    /\ driverScores[2].scoreHistory # <<>>

AppendsFor(d) ==
    \/ \E e \in ExercisedEndpoints : ScoringEndpoint(e, d)
    \/ \E body \in ValidCustomBodies : body.driverId = d /\ CustomEndpoint(body)

Min(a, b) == IF a <= b THEN a ELSE b

Max(a, b) == IF a >= b THEN a ELSE b

\* C7 (scoreAfter snapshot): the scoreAfter of a newly appended event is the
\* driver's currentScore right after the append, which is the score before
\* it plus the event's point delta; in every state the newest event of a log
\* carries the driver's current score; and no step changes an event that
\* stays in the log (the k-th event appended since the reset stays the same
\* record, scoreAfter included).
ScoreAfterSnapshot ==
    /\ [](\A i \in 1..Len(driverScores) :
            LET driver == driverScores[i]
            IN  driver.events # <<>>
                    => driver.events[Len(driver.events)].scoreAfter = driver.currentScore)
    /\ [][ /\ \A d \in DriverIds :
                 AppendsFor(d) =>
                     LET new  == Get(driverScores', d)
                         last == new.events[Len(new.events)]
                     IN  /\ last.scoreAfter = new.currentScore
                         /\ last.scoreAfter =
                               Add(ScoreOf(driverScores, scoringConfig, d), last.points)
           /\ \A i \in 1..Len(driverScores) :
                 LET d   == driverScores[i].driverId
                     old == driverScores[i].events
                     new == Get(driverScores', d).events
                     \* new[k] and old[k + shift] are the same appended event,
                     \* for the k from lo to hi that have both
                     shift == (appended'[d] - Len(new)) - (appended[d] - Len(old))
                     lo    == Max(1, 1 - shift)
                     hi    == Min(Len(new), Len(old) - shift)
                 IN  appended'[d] >= appended[d] =>
                         SubSeq(new, lo, hi) = SubSeq(old, lo + shift, hi + shift)
         ]_vars

\* A log at the cap after its oldest event was dropped: its newest event
\* carries the current score, 3 points above the event before it.
SnapshotWitness ==
    \E i \in 1..Len(driverScores) :
        LET driver == driverScores[i]
        IN  /\ appended[driver.driverId] = EventCap + 1
            /\ driver.currentScore = Num(3 * (EventCap + 1))
            /\ driver.events[EventCap].scoreAfter = driver.currentScore
            /\ driver.events[EventCap - 1].scoreAfter = Num(3 * EventCap)

ServedFor(d) == LET Names(r) == r.driverId = d IN SelectSeq(served, Names)

\* the point delta the start-up configuration gives a request's rule
SeededPoints(r) == DefaultConfig[r.endpoint.cat][r.endpoint.key]

\* The ledger the first n of these requests give when run one after the
\* other: the score, and the number of events since the last reset.
RECURSIVE SerialScore(_, _)
SerialScore(reqs, n) ==
    IF n = 0 \/ reqs[n].kind = "reset"
    THEN 0
    ELSE SerialScore(reqs, n - 1) + SeededPoints(reqs[n])

RECURSIVE SerialCount(_, _)
SerialCount(reqs, n) ==
    IF n = 0 \/ reqs[n].kind = "reset" THEN 0 ELSE SerialCount(reqs, n - 1) + 1

ResetsIn(reqs, n) == Cardinality({m \in 1..n : reqs[m].kind = "reset"})

\* C6 (no lost update under concurrency): whatever the order in which the
\* pending requests are dispatched, each driver's aggregate and log are those
\* of running the served requests one after the other in the order served:
\* one event per append since the driver's last reset, in that order, each
\* snapshot the running total, currentScore the total of all of them, and
\* one history entry per reset, holding the score and count of its period.
NoLostUpdate ==
    \A d \in DriverIds :
        LET mine == ServedFor(d)
            n    == Len(mine)
        IN  IF n = 0
            THEN ~Has(driverScores, d)
            ELSE /\ Has(driverScores, d)
                 /\ LET driver == Get(driverScores, d)
                        first  == n - SerialCount(mine, n)
                    IN  /\ driver.currentScore = Num(SerialScore(mine, n))
                        /\ Len(driver.events) = SerialCount(mine, n)
                        /\ appended[d] = SerialCount(mine, n)
                        /\ \A i \in 1..Len(driver.events) :
                              /\ driver.events[i].event = mine[first + i].endpoint.event
                              /\ driver.events[i].points = Num(SeededPoints(mine[first + i]))
                              /\ driver.events[i].scoreAfter = Num(SerialScore(mine, first + i))
                        /\ Len(driver.scoreHistory) = ResetsIn(mine, n)
                        /\ \A m \in 1..n :
                              mine[m].kind = "reset" =>
                                  LET entry == driver.scoreHistory[ResetsIn(mine, m)]
                                  IN  /\ entry.finalScore = Num(SerialScore(mine, m - 1))
                                      /\ entry.eventsCount = SerialCount(mine, m - 1)

\* Three requests for one driver were pending together and served out of
\* the order issued: an append, a reset, then the append issued first.
ConcurrencyWitness ==
    /\ inflight = {}
    /\ Len(served) = 3
    /\ \A i \in 1..3 : served[i].driverId = "d1"
    /\ served[1].kind = "append" /\ served[2].kind = "reset" /\ served[3].kind = "append"
    /\ served[3].id = 1
    /\ Get(driverScores, "d1").currentScore = Num(SeededPoints(served[3]))

=============================================================================
